---------------------------- MODULE Spec2Model ----------------------------
(***************************************************************************)
(* A model of src/main.py (FixMySheet backend): the key normalizer, the    *)
(* row key composer, the duplicate grouping engine, the reconciliation     *)
(* engine and the two upload endpoints with their temporary artifacts.     *)
(*                                                                         *)
(* Text is a sequence of one-character strings.  The token US stands for   *)
(* the single character U+001F (Unit Separator).  A cell of a table is a   *)
(* record [t, s, n]: t = "nan" (missing), t = "str" (text s) or t = "num"  *)
(* (the integer n).                                                        *)
(***************************************************************************)
EXTENDS Integers, Sequences, FiniteSets, TLC

VARIABLES
    args,       \* the arguments of the function call under study
    ret,        \* what the call returned (<<>> before it returns)
    pc,         \* "call" | "return" | "again" for a function call
    requests,   \* the HTTP requests: id -> [endpoint, form, pc, response, ...]
    tmp_files   \* the paths that exist in TMP_DIR

vars == <<args, ret, pc, requests, tmp_files>>

--------------------------------------------------------------------------
(* Bounds of the model *)

MaxLen == 4
MaxCol == 2

--------------------------------------------------------------------------
(* Text primitives: what str.strip, re \s, str.lower and str() do *)

US == "US"

Whitespace == {" ", "\t", "\n", "\r", "\f", US}

IsSpace(c) == c \in Whitespace

UpperLetters ==
    <<"A","B","C","D","E","F","G","H","I","J","K","L","M",
      "N","O","P","Q","R","S","T","U","V","W","X","Y","Z">>

LowerLetters ==
    <<"a","b","c","d","e","f","g","h","i","j","k","l","m",
      "n","o","p","q","r","s","t","u","v","w","x","y","z">>

LowerChar(c) ==
    IF \E i \in 1..26 : UpperLetters[i] = c
    THEN LowerLetters[CHOOSE i \in 1..26 : UpperLetters[i] = c]
    ELSE c

Lower(s) == [i \in 1..Len(s) |-> LowerChar(s[i])]

RECURSIVE LStrip(_)
LStrip(s) ==
    IF s # <<>> /\ IsSpace(Head(s)) THEN LStrip(Tail(s)) ELSE s

RECURSIVE RStrip(_)
RStrip(s) ==
    IF s # <<>> /\ IsSpace(s[Len(s)]) THEN RStrip(SubSeq(s, 1, Len(s) - 1)) ELSE s

Strip(s) == RStrip(LStrip(s))

RemoveWhitespace(s) == SelectSeq(s, LAMBDA c : ~IsSpace(c))

DigitChars == <<"0","1","2","3","4","5","6","7","8","9">>

RECURSIVE NatStr(_)
NatStr(n) ==
    IF n < 10 THEN <<DigitChars[n + 1]>>
    ELSE NatStr(n \div 10) \o <<DigitChars[(n % 10) + 1]>>

IntStr(n) == IF n < 0 THEN <<"-">> \o NatStr(0 - n) ELSE NatStr(n)

--------------------------------------------------------------------------
(* Cells and columns *)

NaN == [t |-> "nan", s |-> <<>>, n |-> 0]
Str(s) == [t |-> "str", s |-> s, n |-> 0]
Num(n) == [t |-> "num", s |-> <<>>, n |-> n]

IsNa(v) == v.t = "nan"

\* The dtype pandas gives a column: object when it holds text, float64 when
\* it holds numbers and missing values, int64 when it holds only numbers.
DType(col) ==
    IF col = <<>> \/ \E i \in 1..Len(col) : col[i].t = "str" THEN "object"
    ELSE IF \E i \in 1..Len(col) : col[i].t = "nan" THEN "float64"
    ELSE "int64"

\* str(v) of one element of a column of the given dtype
ToStr(v, dtype) ==
    CASE v.t = "str" -> v.s
      [] v.t = "nan" -> <<"n","a","n">>
      [] v.t = "num" ->
            IF dtype = "float64" THEN IntStr(v.n) \o <<".","0">> ELSE IntStr(v.n)

\* Series.fillna(""): a missing element becomes the empty text
FillNa(v) == IF IsNa(v) THEN Str(<<>>) ELSE v

\* s.fillna("").astype(str)
FillNaAsStr(col) == [i \in 1..Len(col) |-> ToStr(FillNa(col[i]), DType(col))]

\* A column of texts as a pandas Series of str
AsColumn(texts) == [i \in 1..Len(texts) |-> Str(texts[i])]

--------------------------------------------------------------------------
(* Key Normalizer *)

\* the normalizer with a whitespace step that removes one whitespace character
NormalizeOneFirstWhitespaceOnly(t, ignore_case, ignore_whitespace) ==
    LET stripped == Strip(t)
        spaces   == {k \in 1..Len(stripped) : IsSpace(stripped[k])}
        first    == CHOOSE k \in spaces : \A j \in spaces : k <= j
        nows     == IF ignore_whitespace /\ spaces # {}
                    THEN SubSeq(stripped, 1, first - 1) \o
                         SubSeq(stripped, first + 1, Len(stripped))
                    ELSE stripped
    IN  IF ignore_case THEN Lower(nows) ELSE nows

\* the steps applied to one text after fillna/astype: strip, \s+ removal, lower
NormalizeOne(t, ignore_case, ignore_whitespace) ==
    LET stripped == Strip(t)
        nows     == IF ignore_whitespace THEN RemoveWhitespace(stripped) ELSE stripped
    IN  IF ignore_case THEN Lower(nows) ELSE nows

_normalize_text_series(s, ignore_case, ignore_whitespace) ==
    LET texts == FillNaAsStr(s)
    IN  [i \in 1..Len(texts) |-> NormalizeOne(texts[i], ignore_case, ignore_whitespace)]

normalize_key(series) ==
    LET texts == FillNaAsStr(series)
    IN  [i \in 1..Len(texts) |-> Strip(texts[i])]

--------------------------------------------------------------------------
(* Input domains *)

RECURSIVE SeqsUpTo(_, _)
SeqsUpTo(S, n) ==
    IF n = 0 THEN {<<>>}
    ELSE LET shorter == SeqsUpTo(S, n - 1)
         IN  shorter \cup {Append(q, x) : q \in {p \in shorter : Len(p) = n - 1}, x \in S}

NormChars == {"a", "B", " "}
NormCells == {NaN, Num(12)} \cup {Str(t) : t \in SeqsUpTo(NormChars, MaxLen)}

\* the cells that fill a column around the one cell that ranges over NormCells
NormFillers == {NaN, Num(12), Str(<<"B", " ", " ", "a">>)}

\* the columns of up to MaxCol cells: one cell, at any position, is any of
\* NormCells and the others are fillers
NormColumns ==
    {<<>>} \cup
    UNION {{[f EXCEPT ![k] = c] : f \in [1..n -> NormFillers], k \in 1..n, c \in NormCells} :
           n \in 1..MaxCol}

--------------------------------------------------------------------------
(* Specification: calls of _normalize_text_series *)

NoServer == requests = <<>> /\ tmp_files = {}

InitNormalize ==
    /\ args \in [s : NormColumns, ignore_case : BOOLEAN, ignore_whitespace : BOOLEAN]
    /\ ret = <<>>
    /\ pc = "call"
    /\ NoServer

\* col_norm = _normalize_text_series(col_raw, ignore_case, ignore_whitespace)
Normalize ==
    /\ pc = "call"
    /\ ret' = <<_normalize_text_series(args.s, args.ignore_case, args.ignore_whitespace)>>
    /\ pc' = "return"
    /\ UNCHANGED <<args, requests, tmp_files>>

\* the same call on the column it returned
NormalizeAgain ==
    /\ pc = "return"
    /\ ret' = Append(ret, _normalize_text_series(AsColumn(ret[1]), args.ignore_case,
                                                 args.ignore_whitespace))
    /\ pc' = "again"
    /\ UNCHANGED <<args, requests, tmp_files>>

NextNormalize == Normalize \/ NormalizeAgain

SpecNormalize == InitNormalize /\ [][NextNormalize]_vars


(* C8: _normalize_text_series is idempotent for each setting of the flags:
   normalizing the returned column again returns the same column, of the
   same length and order as the input; and the first result is what the
   steps missing-to-empty, to-text, strip, remove whitespace, lower-case
   must give: a missing value gives the empty text, a number its str()
   (its digits, with ".0" in a float64 column),
   no result has whitespace at an edge, none has whitespace at all under
   ignore_whitespace, none has an upper-case letter under ignore_case, a
   text without whitespace or upper-case letters is returned unchanged at
   its own position, and without ignore_whitespace the whitespace between
   the characters of a text stays where it was. *)
NormalizeIdempotent ==
    /\ pc \in {"return", "again"} =>
          /\ Len(ret[1]) = Len(args.s)
          /\ \A i \in 1..Len(args.s) :
                LET v == args.s[i]
                    r == ret[1][i]
                IN  /\ IsNa(v) => r = <<>>
                    /\ v.t = "num" => r = ToStr(v, DType(args.s))
                    /\ r # <<>> => ~IsSpace(r[1]) /\ ~IsSpace(r[Len(r)])
                    /\ args.ignore_whitespace => \A k \in 1..Len(r) : ~IsSpace(r[k])
                    /\ args.ignore_case =>
                          \A k \in 1..Len(r) : \A u \in 1..26 : r[k] # UpperLetters[u]
                    /\ (/\ v.t = "str"
                        /\ \A k \in 1..Len(v.s) :
                              /\ ~IsSpace(v.s[k])
                              /\ \A u \in 1..26 : v.s[k] # UpperLetters[u]) => r = v.s
                    /\ (v.t = "str" /\ ~args.ignore_whitespace) =>
                          /\ Len(r) = Len(Strip(v.s))
                          /\ \A k \in 1..Len(r) : IsSpace(r[k]) <=> IsSpace(Strip(v.s)[k])
    /\ pc = "again" => ret[2] = ret[1]

\* a column with a missing value and a text that every step changes (white
\* space at an edge, white space between two letters, an upper-case letter)
\* has been normalized twice
NormalizeIdempotentWitness ==
    /\ pc = "again"
    /\ args.ignore_case /\ args.ignore_whitespace
    /\ args.s = <<NaN, Str(<<" ", "B", " ", "a">>)>>
    /\ ret[1] = << <<>>, <<"b", "a">> >>
    /\ ret[2] = ret[1]

--------------------------------------------------------------------------
(* Tables: [columns |-> names, rows |-> rows], a row being the sequence of
   its cells in column order; a column name is a text *)

ColIndex(df, c) == CHOOSE k \in 1..Len(df.columns) : df.columns[k] = c

HasColumn(df, c) == \E k \in 1..Len(df.columns) : df.columns[k] = c

\* df[c]
Column(df, c) == [i \in 1..Len(df.rows) |-> df.rows[i][ColIndex(df, c)]]

\* df[c] = series
SetColumn(df, c, texts) ==
    [df EXCEPT !.rows =
        [i \in 1..Len(df.rows) |-> [df.rows[i] EXCEPT ![ColIndex(df, c)] = Str(texts[i])]]]

RECURSIVE Join(_, _)
Join(parts, delim) ==
    IF parts = <<>> THEN <<>>
    ELSE IF Len(parts) = 1 THEN parts[1]
    ELSE parts[1] \o <<delim>> \o Join(Tail(parts), delim)

--------------------------------------------------------------------------
(* Row Key Composer *)

\* one column of work: normalized when its dtype is object, else its
\* numbers as str() with missing values as the empty text
WorkColumn(col, ignore_case, ignore_whitespace) ==
    IF DType(col) = "object"
    THEN _normalize_text_series(col, ignore_case, ignore_whitespace)
    ELSE FillNaAsStr(col)

_make_row_keys(df, subset_cols, ignore_case, ignore_whitespace) ==
    LET work == [k \in 1..Len(subset_cols) |->
                    WorkColumn(Column(df, subset_cols[k]), ignore_case, ignore_whitespace)]
    IN  [i \in 1..Len(df.rows) |->
            Join([k \in 1..Len(subset_cols) |-> work[k][i]], US)]

--------------------------------------------------------------------------
(* Duplicate Grouping Engine *)

None == <<[t |-> "None", s |-> <<>>, n |-> 0]>>

BlankRowPrefix == <<"_","_","B","L","A","N","K","_","_","R","O","W","_","_">>

\* "__BLANK__ROW__" + str(index), the index being the 0-based RangeIndex
BlankRowKey(i) == BlankRowPrefix \o NatStr(i - 1)

\* internal_key after the blank substitution
InternalKey(group_key, treat_blank_as_unique) ==
    LET internal_key == FillNaAsStr(group_key)
    IN  [i \in 1..Len(internal_key) |->
            IF treat_blank_as_unique /\ internal_key[i] = <<>>
            THEN BlankRowKey(i) ELSE internal_key[i]]

\* internal_key.map(internal_key.value_counts())
ValueCounts(keys) ==
    [i \in 1..Len(keys) |-> Cardinality({j \in 1..Len(keys) : keys[j] = keys[i]})]

FirstIndex(keys, i) == CHOOSE j \in 1..i : keys[j] = keys[i] /\ \A k \in 1..(j - 1) : keys[k] # keys[i]

FirstSeenOwnRow(keys) == [i \in 1..Len(keys) |-> i]

\* row_number.groupby(internal_key).transform("min")
FirstSeen(keys) == [i \in 1..Len(keys) |-> FirstIndex(keys, i)]

\* pd.factorize(internal_key, sort=False): the code of a key is the number
\* of distinct keys that appear before its first occurrence
Factorize(keys) ==
    [i \in 1..Len(keys) |-> Cardinality({keys[j] : j \in 1..FirstIndex(keys, i)}) - 1]

GroupIdWidth == 6

\* f"G{(x+1):06d}"
GroupIdStr(x) ==
    LET digits == NatStr(x + 1)
        pad    == IF Len(digits) < GroupIdWidth
                  THEN [k \in 1..(GroupIdWidth - Len(digits)) |-> "0"] ELSE <<>>
    IN  <<"G">> \o pad \o digits

DuplicatedKeepNone(keys, keep) ==
    [i \in 1..Len(keys) |-> \E j \in 1..Len(keys) : j # i /\ keys[j] = keys[i]]

\* internal_key.duplicated(keep=keep)
Duplicated(keys, keep) ==
    [i \in 1..Len(keys) |->
        IF keep = "first" THEN \E j \in 1..(i - 1) : keys[j] = keys[i]
        ELSE \E j \in (i + 1)..Len(keys) : keys[j] = keys[i]]

KeepPolicies == {"mark_all", "keep_first", "keep_last"}

\* what a call returns when it raised
\* ValueError("keep_policy must be: mark_all | keep_first | keep_last")
ValueError == <<[raised |-> "ValueError: keep_policy must be: mark_all | keep_first | keep_last"]>>

\* flag after the two where() calls of a keep_first / keep_last branch
KeepFlags(keys, in_dup_group, keep) ==
    LET is_dup_row == Duplicated(keys, keep)
    IN  [i \in 1..Len(keys) |->
            IF is_dup_row[i] THEN "Duplicate"
            ELSE IF in_dup_group[i] THEN "Kept" ELSE "Unique"]

Flags(keys, in_dup_group, keep_policy) ==
    CASE keep_policy = "mark_all" ->
            [i \in 1..Len(keys) |-> IF in_dup_group[i] THEN "Duplicate" ELSE "Unique"]
      [] keep_policy = "keep_first" -> KeepFlags(keys, in_dup_group, "first")
      [] keep_policy = "keep_last" -> KeepFlags(keys, in_dup_group, "last")
      [] OTHER -> ValueError

_audit_duplicate_groups(df, group_key, display_key, keep_policy, treat_blank_as_unique) ==
    LET n            == Len(df.rows)
        plain_key    == FillNaAsStr(group_key)
        display      == IF display_key = None THEN FillNaAsStr(group_key)
                        ELSE FillNaAsStr(display_key)
        is_blank     == [i \in 1..n |-> plain_key[i] = <<>>]
        internal_key == InternalKey(group_key, treat_blank_as_unique)
        counts       == ValueCounts(internal_key)
        in_dup_group == [i \in 1..n |-> counts[i] > 1]
        first_seen   == FirstSeen(internal_key)
        codes        == Factorize(internal_key)
        flag         == Flags(internal_key, in_dup_group, keep_policy)
    IN  IF keep_policy \notin KeepPolicies THEN ValueError
        ELSE
        [i \in 1..n |->
            [row                   |-> df.rows[i],
             DuplicateKey          |-> IF is_blank[i] THEN <<>> ELSE display[i],
             DuplicateGroupID      |-> IF in_dup_group[i] THEN GroupIdStr(codes[i]) ELSE <<>>,
             DuplicateCount        |-> counts[i],
             DuplicateFirstSeenRow |-> first_seen[i],
             DuplicateFlag         |-> flag[i]]]

--------------------------------------------------------------------------
(* Specification: calls of _audit_duplicate_groups *)

MaxRows == 4

KeyTable(col) == [columns |-> << <<"k">> >>, rows |-> [i \in 1..Len(col) |-> <<col[i]>>]]

AuditKeys == {NaN, Str(<<>>), Str(<<"a">>), Str(<<"b">>), Str(BlankRowKey(1))}

AuditKeyColumns == SeqsUpTo(AuditKeys, MaxRows) \ {<<>>}

InitAudit ==
    /\ args \in [group_key : AuditKeyColumns, keep_policy : KeepPolicies,
                 treat_blank_as_unique : BOOLEAN]
    /\ ret = <<>>
    /\ pc = "call"
    /\ NoServer

Audit ==
    /\ pc = "call"
    /\ ret' = _audit_duplicate_groups(KeyTable(args.group_key), args.group_key, None,
                                      args.keep_policy, args.treat_blank_as_unique)
    /\ pc' = "return"
    /\ UNCHANGED <<args, requests, tmp_files>>

NextAudit == Audit

SpecAudit == InitAudit /\ [][NextAudit]_vars

\* the grouping key of the call under study, and the rows of one group
AuditKey == InternalKey(args.group_key, args.treat_blank_as_unique)

Group(i) == {j \in 1..Len(AuditKey) : AuditKey[j] = AuditKey[i]}

Min(S) == CHOOSE x \in S : \A y \in S : x <= y

Max(S) == CHOOSE x \in S : \A y \in S : x >= y

(* C1: the rows are partitioned into groups by equality of the
   blank-disambiguated key: one output row per input row, DuplicateCount is
   the number of rows that carry the row's key, DuplicateFirstSeenRow the
   minimum 1-based position among them, and all members of a group carry the
   same count and the same first-seen value. *)
GroupsPartitionRows ==
    pc = "return" =>
        /\ Len(ret) = Len(args.group_key)
        /\ \A i \in 1..Len(ret) :
              /\ ret[i].DuplicateCount = Cardinality(Group(i))
              /\ ret[i].DuplicateFirstSeenRow = Min(Group(i))
              /\ \A j \in Group(i) :
                    /\ ret[j].DuplicateCount = ret[i].DuplicateCount
                    /\ ret[j].DuplicateFirstSeenRow = ret[i].DuplicateFirstSeenRow

\* a group of two rows whose first member is not the first row, beside a
\* singleton group
GroupsPartitionRowsWitness ==
    /\ pc = "return"
    /\ Len(ret) = 4
    /\ ret[2].DuplicateCount = 2 /\ ret[4].DuplicateCount = 2
    /\ ret[4].DuplicateFirstSeenRow = 2
    /\ ret[1].DuplicateCount = 1 /\ ret[1].DuplicateFirstSeenRow = 1
    /\ ret[3].DuplicateFirstSeenRow = 3

\* what the same call returns under another keep policy
AuditUnder(policy) ==
    _audit_duplicate_groups(KeyTable(args.group_key), args.group_key, None, policy,
                            args.treat_blank_as_unique)

(* C2: the DuplicateFlag of each row is the one the keep policy defines: a
   row of a group of size 1 is Unique; under mark_all every row of a larger
   group is Duplicate; under keep_first the row of the group with the
   smallest position is Kept and its other rows are Duplicate; under
   keep_last the same with the largest position.  keep_first and keep_last
   give the same DuplicateCount, DuplicateGroupID and DuplicateFirstSeenRow,
   and their flags differ only on the rows one of them keeps. *)
FlagsFollowKeepPolicy ==
    pc = "return" =>
        /\ \A i \in 1..Len(ret) :
              IF Cardinality(Group(i)) = 1 THEN ret[i].DuplicateFlag = "Unique"
              ELSE CASE args.keep_policy = "mark_all" -> ret[i].DuplicateFlag = "Duplicate"
                     [] args.keep_policy = "keep_first" ->
                            ret[i].DuplicateFlag =
                                IF i = Min(Group(i)) THEN "Kept" ELSE "Duplicate"
                     [] args.keep_policy = "keep_last" ->
                            ret[i].DuplicateFlag =
                                IF i = Max(Group(i)) THEN "Kept" ELSE "Duplicate"
        /\ args.keep_policy # "mark_all" =>
              \A i \in 1..Len(ret) :
                  Cardinality(Group(i)) > 1 =>
                      Cardinality({j \in Group(i) : ret[j].DuplicateFlag = "Kept"}) = 1
        /\ LET first == AuditUnder("keep_first")
               last  == AuditUnder("keep_last")
           IN  \A i \in 1..Len(ret) :
                  /\ first[i].DuplicateCount = last[i].DuplicateCount
                  /\ first[i].DuplicateGroupID = last[i].DuplicateGroupID
                  /\ first[i].DuplicateFirstSeenRow = last[i].DuplicateFirstSeenRow
                  /\ first[i].DuplicateFlag # last[i].DuplicateFlag =>
                        "Kept" \in {first[i].DuplicateFlag, last[i].DuplicateFlag}

\* keep_last on a group of three rows around a singleton: the last is kept
FlagsFollowKeepPolicyWitness ==
    /\ pc = "return"
    /\ args.keep_policy = "keep_last"
    /\ Len(ret) = 4
    /\ [i \in 1..4 |-> ret[i].DuplicateFlag] = <<"Duplicate", "Unique", "Duplicate", "Kept">>
    /\ AuditUnder("keep_first")[1].DuplicateFlag = "Kept"

\* the duplicate groups, each named by the position of its first row
DuplicateGroupStarts == {Min(Group(j)) : j \in {k \in 1..Len(AuditKey) : Cardinality(Group(k)) > 1}}

\* the rank of row i's group among the duplicate groups, by first appearance
DuplicateGroupRank(i) == Cardinality({m \in DuplicateGroupStarts : m <= Min(Group(i))})

(* C3: the group ids are sequential among the duplicate groups: the k-th
   group of size > 1, in order of first appearance, has the id G followed by
   k zero-padded to width 6; rows of one group share the id, different
   groups have different ids, and a row of a group of size 1 has the empty
   id. *)
GroupIdsSequential ==
    pc = "return" =>
        \A i \in 1..Len(ret) :
            /\ Cardinality(Group(i)) = 1 => ret[i].DuplicateGroupID = <<>>
            /\ Cardinality(Group(i)) > 1 =>
                  /\ ret[i].DuplicateGroupID =
                        <<"G", "0", "0", "0", "0", "0">> \o NatStr(DuplicateGroupRank(i))
                  /\ \A j \in 1..Len(ret) :
                        (ret[j].DuplicateGroupID = ret[i].DuplicateGroupID) <=> j \in Group(i)

--------------------------------------------------------------------------
(* The /dedupe handler up to its output table *)

\* a form field that was not sent
NoneText == <<"None">>

\* an upload: read_table either raises or returns a table
Unreadable == [ok |-> FALSE, df |-> [columns |-> <<>>, rows |-> <<>>]]
Parsed(df) == [ok |-> TRUE, df |-> df]

\* df.empty: no rows or no columns
IsEmpty(df) == Len(df.rows) = 0 \/ Len(df.columns) = 0

RECURSIVE Split(_, _)
\* text.split(sep)
Split(t, sep) ==
    IF \E k \in 1..Len(t) : t[k] = sep
    THEN LET k == CHOOSE m \in 1..Len(t) : t[m] = sep /\ \A q \in 1..(m - 1) : t[q] # sep
         IN  <<SubSeq(t, 1, k - 1)>> \o Split(SubSeq(t, k + 1, Len(t)), sep)
    ELSE <<t>>

\* [c.strip() for c in ignore_columns.split(",") if c.strip()]
IgnoreList(ignore_columns) ==
    IF ignore_columns = NoneText \/ Strip(ignore_columns) = <<>> THEN <<>>
    ELSE LET parts == Split(ignore_columns, ",")
         IN  SelectSeq([k \in 1..Len(parts) |-> Strip(parts[k])], LAMBDA c : c # <<>>)

InList(c, list) == \E k \in 1..Len(list) : list[k] = c

BadRequest(error, columns) == [status |-> 400, error |-> error, columns |-> columns, out |-> <<>>]

\* an exception that leaves the handler: the framework answers 500
Raised == [status |-> 500, error |-> "Internal Server Error", columns |-> <<>>, out |-> <<>>]

\* out.insert(0, "DuplicateMode", mode)
WithMode(out, mode) ==
    IF out = ValueError THEN Raised
    ELSE
    [status |-> 200, error |-> "", columns |-> <<>>,
     out |-> [i \in 1..Len(out) |->
                [DuplicateMode         |-> mode,
                 row                   |-> out[i].row,
                 DuplicateKey          |-> out[i].DuplicateKey,
                 DuplicateGroupID      |-> out[i].DuplicateGroupID,
                 DuplicateCount        |-> out[i].DuplicateCount,
                 DuplicateFirstSeenRow |-> out[i].DuplicateFirstSeenRow,
                 DuplicateFlag         |-> out[i].DuplicateFlag]]]

DedupeColumn(df, form) ==
    IF form.key_column = NoneText \/ Strip(form.key_column) = <<>>
    THEN BadRequest("key_column is required when mode='column'.", <<>>)
    ELSE LET key_column == Strip(form.key_column)
         IN  IF ~HasColumn(df, key_column)
             THEN BadRequest("Column '{key_column}' not found.", df.columns)
             ELSE LET col_raw  == Column(df, key_column)
                      col_norm == _normalize_text_series(col_raw, form.ignore_case,
                                                         form.ignore_whitespace)
                  IN  WithMode(_audit_duplicate_groups(df, AsColumn(col_norm), col_raw,
                                                       form.keep_policy, TRUE),
                               "column")

DedupeRow(df, form) ==
    LET ignore_list == IgnoreList(form.ignore_columns)
        bad_ignores == SelectSeq(ignore_list, LAMBDA c : ~HasColumn(df, c))
        subset_cols == SelectSeq(df.columns, LAMBDA c : ~InList(c, ignore_list))
    IN  IF bad_ignores # <<>>
        THEN BadRequest("Ignore columns not found: {bad_ignores}", df.columns)
        ELSE IF subset_cols = <<>>
        THEN BadRequest("No columns left to compare after ignoring columns.", <<>>)
        ELSE LET row_keys == _make_row_keys(df, subset_cols, form.ignore_case,
                                            form.ignore_whitespace)
             IN  WithMode(_audit_duplicate_groups(df, AsColumn(row_keys), None,
                                                  form.keep_policy, FALSE),
                          "row")

\* dedupe, from reading the upload to the annotated table
DedupeTable(upload, form) ==
    IF ~upload.ok THEN BadRequest("Invalid file. Upload .xlsx or .csv", <<>>)
    ELSE IF IsEmpty(upload.df) THEN BadRequest("File contains no rows to process.", <<>>)
    ELSE IF form.keep_policy \notin KeepPolicies
    THEN BadRequest("keep_policy must be: mark_all | keep_first | keep_last", <<>>)
    ELSE IF form.mode = "column" THEN DedupeColumn(upload.df, form)
    ELSE IF form.mode = "row" THEN DedupeRow(upload.df, form)
    ELSE BadRequest("mode must be either 'column' or 'row'.", <<>>)

--------------------------------------------------------------------------
(* Specification: /dedupe on one upload, from the form to the output table *)

MaxTableRows == 3

KV == << <<"k">>, <<"v">> >>

DedupeKCells == {NaN, Str(<<" ">>), Str(<<"a">>), Str(<<"A", " ">>), Str(BlankRowKey(1))}

DedupeRows ==
    {<<k, Num(1)>> : k \in DedupeKCells} \cup {<<k, NaN>> : k \in {NaN, Str(<<"a">>)}}

DedupeTables == {[columns |-> KV, rows |-> r] : r \in SeqsUpTo(DedupeRows, MaxTableRows)}

DedupeForms ==
    [mode : {"column"}, keep_policy : KeepPolicies, ignore_case : BOOLEAN,
     ignore_whitespace : BOOLEAN,
     key_column : {<<"k">>, <<" ", "v">>, <<"z">>, NoneText}, ignore_columns : {NoneText}]
    \cup
    [mode : {"row"}, keep_policy : KeepPolicies, ignore_case : BOOLEAN,
     ignore_whitespace : BOOLEAN, key_column : {NoneText},
     ignore_columns : {NoneText, <<"v">>, <<"v", ",", " ", "k">>, <<"z">>}]

InitDedupe ==
    /\ args \in [upload : {Parsed(df) : df \in DedupeTables}, form : DedupeForms]
    /\ ret = <<>>
    /\ pc = "call"
    /\ NoServer

DedupeCall ==
    /\ pc = "call"
    /\ ret' = DedupeTable(args.upload, args.form)
    /\ pc' = "return"
    /\ UNCHANGED <<args, requests, tmp_files>>

NextDedupe == DedupeCall

SpecDedupe == InitDedupe /\ [][NextDedupe]_vars

\* the normalized key column of a column-mode call
ColumnModeKey ==
    _normalize_text_series(Column(args.upload.df, Strip(args.form.key_column)),
                           args.form.ignore_case, args.form.ignore_whitespace)

\* the rows that carry the same non-blank normalized key as row i
SameKeyRows(i) == {j \in 1..Len(ColumnModeKey) : ColumnModeKey[j] = ColumnModeKey[i]}

(* C4: in column mode every row whose normalized key is the empty text is a
   singleton group (DuplicateCount 1, empty DuplicateGroupID, Unique) shown
   with the empty DuplicateKey, and the count and flag of a non-blank row
   are those of the rows that carry its own normalized key, whatever blank
   rows the column holds: also when a non-blank key equals the text
   __BLANK__ROW__<i> of a blank row i. *)
BlankKeysAreSingletons ==
    (pc = "return" /\ args.form.mode = "column" /\ ret.status = 200) =>
        \A i \in 1..Len(ret.out) :
            IF ColumnModeKey[i] = <<>>
            THEN /\ ret.out[i].DuplicateCount = 1
                 /\ ret.out[i].DuplicateGroupID = <<>>
                 /\ ret.out[i].DuplicateFlag = "Unique"
                 /\ ret.out[i].DuplicateKey = <<>>
            ELSE /\ ret.out[i].DuplicateCount = Cardinality(SameKeyRows(i))
                 /\ ret.out[i].DuplicateFlag =
                        IF Cardinality(SameKeyRows(i)) = 1 THEN "Unique"
                        ELSE CASE args.form.keep_policy = "mark_all" -> "Duplicate"
                               [] args.form.keep_policy = "keep_first" ->
                                    IF i = Min(SameKeyRows(i)) THEN "Kept" ELSE "Duplicate"
                               [] args.form.keep_policy = "keep_last" ->
                                    IF i = Max(SameKeyRows(i)) THEN "Kept" ELSE "Duplicate"

--------------------------------------------------------------------------
(* Specification: calls of _make_row_keys on two rows of two columns *)

MaxKeyLen == 3

XY == << <<"x">>, <<"y">> >>

RowKeyCells == {NaN, Num(1)} \cup {Str(t) : t \in SeqsUpTo({"a", US}, MaxKeyLen)}

RowKeyTables ==
    {[columns |-> XY, rows |-> <<r1, r2>>] :
        r1 \in RowKeyCells \X RowKeyCells, r2 \in RowKeyCells \X RowKeyCells}

InitRowKeys ==
    /\ args \in [df : RowKeyTables, subset_cols : {XY, << <<"x">> >>},
                 ignore_case : BOOLEAN, ignore_whitespace : BOOLEAN]
    /\ ret = <<>>
    /\ pc = "call"
    /\ NoServer

MakeRowKeys ==
    /\ pc = "call"
    /\ ret' = _make_row_keys(args.df, args.subset_cols, args.ignore_case,
                             args.ignore_whitespace)
    /\ pc' = "return"
    /\ UNCHANGED <<args, requests, tmp_files>>

NextRowKeys == MakeRowKeys

SpecRowKeys == InitRowKeys /\ [][NextRowKeys]_vars

\* the per-column normalized values of row i of the call under study
NormalizedTuple(i) ==
    [k \in 1..Len(args.subset_cols) |->
        WorkColumn(Column(args.df, args.subset_cols[k]), args.ignore_case,
                   args.ignore_whitespace)[i]]

(* C5: two rows get the same composite key if and only if their per-column
   normalized values are equal column by column, for every cell text the
   normalizer can output, text that contains the separator included. *)
RowKeysInjective ==
    pc = "return" =>
        \A i, j \in 1..Len(ret) : (ret[i] = ret[j]) <=> (NormalizedTuple(i) = NormalizedTuple(j))

--------------------------------------------------------------------------
(* Reconciliation Engine *)

RECURSIVE Flatten(_)
Flatten(seqs) == IF seqs = <<>> THEN <<>> ELSE Head(seqs) \o Flatten(Tail(seqs))

\* a sequence without its k-th element
Without(q, k) == SubSeq(q, 1, k - 1) \o SubSeq(q, k + 1, Len(q))

\* the name merge gives a non-key column: suffixed when both tables have it
Suffixed(c, other, key, suffix) ==
    IF c # key /\ HasColumn(other, c) THEN c \o suffix ELSE c

InnerJoinFirstMatch(a, b, key) ==
    LET ka == ColIndex(a, key)
        kb == ColIndex(b, key)
        matching(i) == SelectSeq([j \in 1..Len(b.rows) |-> j],
                                 LAMBDA j : b.rows[j][kb] = a.rows[i][ka])
    IN  [columns |->
            [k \in 1..Len(a.columns) |-> Suffixed(a.columns[k], b, key, <<"_", "A">>)]
            \o Without([k \in 1..Len(b.columns) |->
                           Suffixed(b.columns[k], a, key, <<"_", "B">>)], kb),
         rows |-> Flatten([i \in 1..Len(a.rows) |->
                     IF matching(i) = <<>> THEN <<>>
                     ELSE <<a.rows[i] \o Without(b.rows[matching(i)[1]], kb)>>])]

\* a.merge(b, on=key, how="inner", suffixes=("_A", "_B")): for each row of a
\* in order, one row per row of b with the same key
InnerJoin(a, b, key) ==
    LET ka == ColIndex(a, key)
        kb == ColIndex(b, key)
        matching(i) == SelectSeq([j \in 1..Len(b.rows) |-> j],
                                 LAMBDA j : b.rows[j][kb] = a.rows[i][ka])
    IN  [columns |->
            [k \in 1..Len(a.columns) |-> Suffixed(a.columns[k], b, key, <<"_", "A">>)]
            \o Without([k \in 1..Len(b.columns) |->
                           Suffixed(b.columns[k], a, key, <<"_", "B">>)], kb),
         rows |-> Flatten([i \in 1..Len(a.rows) |->
                     [m \in 1..Len(matching(i)) |->
                         a.rows[i] \o Without(b.rows[matching(i)[m]], kb)]])]

OnlyInSelf(a, b, key) ==
    [a EXCEPT !.rows =
        SelectSeq(a.rows, LAMBDA r :
            ~\E j \in 1..Len(a.rows) : a.rows[j][ColIndex(a, key)] = r[ColIndex(a, key)])]

\* a[~a[key].isin(b[key])]
OnlyIn(a, b, key) ==
    [a EXCEPT !.rows =
        SelectSeq(a.rows, LAMBDA r :
            ~\E j \in 1..Len(b.rows) : b.rows[j][ColIndex(b, key)] = r[ColIndex(a, key)])]

\* df[key] = normalize_key(df[key]): the caller's frame after the call
KeyNormalized(df, key) == SetColumn(df, key, normalize_key(Column(df, key)))

reconcile_files(df_a, df_b, key) ==
    LET a       == KeyNormalized(df_a, key)
        b       == KeyNormalized(df_b, key)
        matches == InnerJoin(a, b, key)
        only_a  == OnlyIn(a, b, key)
        only_b  == OnlyIn(b, a, key)
    IN  [matches |-> matches, only_a |-> only_a, only_b |-> only_b,
         summary |-> [Metric |-> <<"Rows in A", "Rows in B", "Matches", "Only in A",
                                   "Only in B">>,
                      Count  |-> <<Len(a.rows), Len(b.rows), Len(matches.rows),
                                   Len(only_a.rows), Len(only_b.rows)>>]]

--------------------------------------------------------------------------
(* Specification: calls of reconcile_files on two tables with the columns
   id and v, v holding the position of the row in its table *)

MaxRecRows == 3

IdV == << <<"i", "d">>, <<"v">> >>

IdCells == {NaN, Str(<<"a">>), Str(<<" ", "a">>), Num(1)}

RecTables ==
    {[columns |-> IdV, rows |-> [i \in 1..Len(ids) |-> <<ids[i], Num(i)>>]] :
        ids \in SeqsUpTo(IdCells, MaxRecRows)}

InitReconcile ==
    /\ args \in [df_a : RecTables, df_b : RecTables, key : {<<"i", "d">>}]
    /\ ret = <<>>
    /\ pc = "call"
    /\ NoServer

Reconcile ==
    /\ pc = "call"
    /\ ret' = reconcile_files(args.df_a, args.df_b, args.key)
    /\ args' = [args EXCEPT !.df_a = KeyNormalized(args.df_a, args.key),
                            !.df_b = KeyNormalized(args.df_b, args.key)]
    /\ pc' = "return"
    /\ UNCHANGED <<requests, tmp_files>>

NextReconcile == Reconcile

SpecReconcile == InitReconcile /\ [][NextReconcile]_vars

\* the normalized keys of the two tables as the caller passes them
KeysA == normalize_key(Column(args.df_a, args.key))
KeysB == normalize_key(Column(args.df_b, args.key))

\* the positions (in its own table) of the rows a result table holds, read
\* from the column that holds v
Positions(t, col) == [m \in 1..Len(t.rows) |-> t.rows[m][col].n]

Increasing(q) == \A m \in 1..(Len(q) - 1) : q[m] < q[m + 1]

Range(q) == {q[m] : m \in 1..Len(q)}

(* C6: over a call of reconcile_files, the rows of A are partitioned by key
   membership: a row of A is in OnlyInA if and only if its normalized key
   (of the table as passed: missing as empty, edges stripped, case kept) is
   the normalized key of no row of B, and otherwise it contributes at least
   one row to Matches, never both and never neither; the same for B and
   OnlyInB; OnlyInA and OnlyInB hold their rows once each, in the order of
   their table, as the rows stand in the caller's table after the call (the
   key normalized in place). *)
ReconcilePartition ==
    [][(pc = "call" /\ pc' = "return") =>
        LET inOnlyA == Range(Positions(ret'.only_a, 2))
            inOnlyB == Range(Positions(ret'.only_b, 2))
            matchA  == Range(Positions(ret'.matches, 2))
            matchB  == Range(Positions(ret'.matches, 3))
        IN  /\ \A i \in 1..Len(args.df_a.rows) :
                  /\ i \in inOnlyA <=> ~\E j \in 1..Len(KeysB) : KeysB[j] = KeysA[i]
                  /\ i \in inOnlyA <=> i \notin matchA
            /\ \A j \in 1..Len(args.df_b.rows) :
                  /\ j \in inOnlyB <=> ~\E i \in 1..Len(KeysA) : KeysA[i] = KeysB[j]
                  /\ j \in inOnlyB <=> j \notin matchB
            /\ Increasing(Positions(ret'.only_a, 2))
            /\ Increasing(Positions(ret'.only_b, 2))
            /\ \A m \in 1..Len(ret'.only_a.rows) :
                  /\ ret'.only_a.rows[m][1] = Str(KeysA[ret'.only_a.rows[m][2].n])
                  /\ ret'.only_a.rows[m] = args'.df_a.rows[ret'.only_a.rows[m][2].n]
            /\ \A m \in 1..Len(ret'.only_b.rows) :
                  /\ ret'.only_b.rows[m][1] = Str(KeysB[ret'.only_b.rows[m][2].n])
                  /\ ret'.only_b.rows[m] = args'.df_b.rows[ret'.only_b.rows[m][2].n]
    ]_vars

\* A has a matched row between two unmatched ones, B an unmatched row
ReconcilePartitionWitness ==
    /\ pc = "return"
    /\ Positions(ret.only_a, 2) = <<1, 3>>
    /\ Positions(ret.matches, 2) = <<2>>
    /\ Len(ret.only_b.rows) = 1
    /\ Len(args.df_b.rows) = 2
    /\ args.df_a.rows[1][1] = Str(<<>>)

RECURSIVE SumOverKeys(_)
\* the sum over the key values of (rows of A with the key) x (rows of B with it)
SumOverKeys(keys) ==
    IF keys = {} THEN 0
    ELSE LET k == CHOOSE x \in keys : TRUE
         IN  Cardinality({i \in 1..Len(KeysA) : KeysA[i] = k})
               * Cardinality({j \in 1..Len(KeysB) : KeysB[j] = k})
             + SumOverKeys(keys \ {k})

(* C7: over a call of reconcile_files, Matches holds the full cross-product
   per key value: its row count is the sum over the normalized key values k
   of (rows of A with key k) x (rows of B with key k), one row for each such
   pair; and the Summary holds, in this order, the counters rows in A, rows
   in B, rows in Matches, rows in OnlyInA, rows in OnlyInB, each the size of
   its table. *)
MatchesCrossProduct ==
    [][(pc = "call" /\ pc' = "return") =>
        /\ Len(ret'.matches.rows) = SumOverKeys(Range(KeysA) \cup Range(KeysB))
        /\ {<<r[2].n, r[3].n>> : r \in Range(ret'.matches.rows)}
              = {<<i, j>> \in (1..Len(KeysA)) \X (1..Len(KeysB)) : KeysA[i] = KeysB[j]}
        /\ ret'.summary.Metric = <<"Rows in A", "Rows in B", "Matches", "Only in A", "Only in B">>
        /\ ret'.summary.Count = <<Len(args.df_a.rows), Len(args.df_b.rows),
                                  Len(ret'.matches.rows), Len(ret'.only_a.rows),
                                  Len(ret'.only_b.rows)>>
    ]_vars

\* a key carried by two rows of A and two of B gives four rows of Matches
MatchesCrossProductWitness ==
    /\ pc = "return"
    /\ ret.summary.Count = <<3, 2, 4, 1, 0>>
    /\ ret.matches.columns = << <<"i", "d">>, <<"v", "_", "A">>, <<"v", "_", "B">> >>

--------------------------------------------------------------------------
(* The /process handler up to its result tables *)

ProcessTable(file_a, file_b, match_column) ==
    IF ~file_a.ok \/ ~file_b.ok
    THEN [status |-> 400, error |-> "Invalid file. Upload .xlsx or .csv",
          columns |-> <<>>, columns_b |-> <<>>, out |-> <<>>]
    ELSE IF ~HasColumn(file_a.df, match_column) \/ ~HasColumn(file_b.df, match_column)
    THEN [status |-> 400, error |-> "Column '{match_column}' must exist in both files.",
          columns |-> file_a.df.columns, columns_b |-> file_b.df.columns, out |-> <<>>]
    ELSE [status |-> 200, error |-> "", columns |-> <<>>, columns_b |-> <<>>,
          out |-> reconcile_files(file_a.df, file_b.df, match_column)]

--------------------------------------------------------------------------
(* The server: requests, each handled by its endpoint in one step of the
   event loop (the handlers never await), its response delivered after, and
   its background task run after the response.  uuid4 gives every request a
   file id of its own: the id of the request stands for it. *)

NumRequests == 2

Requests == 1..NumRequests

NoPath == [prefix |-> "", file_id |-> 0]

\* os.path.join(TMP_DIR, f"{prefix}{file_id}.xlsx")
OutputPath(prefix, file_id) == [prefix |-> prefix, file_id |-> file_id]

NoResponse == [status |-> 0, error |-> "", columns |-> <<>>, columns_b |-> <<>>, path |-> NoPath]

ErrorResponse(r) ==
    [status |-> r.status, error |-> r.error, columns |-> r.columns,
     columns_b |-> r.columns_b, path |-> NoPath]

FileResponse(path) ==
    [status |-> 200, error |-> "", columns |-> <<>>, columns_b |-> <<>>, path |-> path]

\* the exception of a failed workbook write leaves the handler: the
\* framework answers 500
ServerError ==
    [status |-> 500, error |-> "Internal Server Error", columns |-> <<>>,
     columns_b |-> <<>>, path |-> NoPath]

T0 == [columns |-> KV, rows |-> <<>>]
T1 == [columns |-> KV, rows |-> << <<Str(<<"a">>), Num(1)>> >>]

ServerUploads == {Unreadable, Parsed(T0), Parsed(T1)}

ServerForm(mode, key_column, ignore_columns, match_column) ==
    [mode |-> mode, keep_policy |-> "mark_all", ignore_case |-> FALSE,
     ignore_whitespace |-> FALSE, key_column |-> key_column,
     ignore_columns |-> ignore_columns, match_column |-> match_column]

DedupeRequests ==
    {[endpoint |-> "dedupe", file |-> f, file_b |-> Unreadable, form |-> form] :
        f \in ServerUploads,
        form \in {ServerForm("column", kc, NoneText, NoneText) :
                      kc \in {<<"k">>, <<"z">>, NoneText}}
                 \cup {ServerForm("row", NoneText, ic, NoneText) :
                      ic \in {NoneText, <<"v", ",", "k">>, <<"z">>}}}

ProcessRequests ==
    {[endpoint |-> "process", file |-> fa, file_b |-> fb,
      form |-> ServerForm("", NoneText, NoneText, mc)] :
        fa \in ServerUploads, fb \in ServerUploads, mc \in {<<"k">>, <<"z">>}}

NewRequest(q) ==
    [endpoint |-> q.endpoint, file |-> q.file, file_b |-> q.file_b, form |-> q.form,
     pc |-> "received", output_path |-> NoPath, background_tasks |-> <<>>,
     response |-> NoResponse, delete_raised |-> FALSE]

InitServer ==
    /\ requests \in [Requests -> {NewRequest(q) : q \in DedupeRequests \cup ProcessRequests}]
    /\ tmp_files = {}
    /\ args = <<>> /\ ret = <<>> /\ pc = "serving"

\* openpyxl refuses a text that holds a control character such as U+001F
\* (IllegalCharacterError)
IllegalText(t) == \E k \in 1..Len(t) : t[k] = US

IllegalRows(rows) ==
    \E i \in 1..Len(rows) : \E k \in 1..Len(rows[i]) : IllegalText(rows[i][k].s)

\* whether out.to_excel(writer, sheet_name="All_Rows") must raise
DedupeWriteRefused(out) ==
    \/ \E i \in 1..Len(out) : IllegalText(out[i].DuplicateKey)
    \/ IllegalRows([i \in 1..Len(out) |-> out[i].row])

\* whether one of the four to_excel calls of /process must raise
ProcessWriteRefused(out) ==
    IllegalRows(out.matches.rows) \/ IllegalRows(out.only_a.rows)
        \/ IllegalRows(out.only_b.rows)

\* the end of both handlers once the tables are computed: the file is
\* created at output_path, the workbook written into it, the deletion
\* scheduled and the FileResponse returned; a write that raises (a refused
\* text, or an I/O error) leaves the handler at once
WriteAndRespond(r, path, refused) ==
    \E raised \in BOOLEAN :
        /\ refused => raised
        /\ tmp_files' = tmp_files \cup {path}
        /\ requests' = [requests EXCEPT ![r] =
              IF ~raised
              THEN [@ EXCEPT !.pc = "responding", !.output_path = path,
                             !.background_tasks = <<path>>,
                             !.response = FileResponse(path)]
              ELSE [@ EXCEPT !.pc = "responding", !.output_path = path,
                             !.response = ServerError]]

Reject(r, result) ==
    /\ requests' = [requests EXCEPT ![r] =
          [@ EXCEPT !.pc = "responding", !.response = ErrorResponse(result)]]
    /\ UNCHANGED tmp_files

process_files(r) ==
    /\ requests[r].pc = "received"
    /\ requests[r].endpoint = "process"
    /\ LET result == ProcessTable(requests[r].file, requests[r].file_b,
                                  requests[r].form.match_column)
       IN  IF result.status # 200 THEN Reject(r, result)
           ELSE WriteAndRespond(r, OutputPath("result_", r), ProcessWriteRefused(result.out))
    /\ UNCHANGED <<args, ret, pc>>

dedupe(r) ==
    /\ requests[r].pc = "received"
    /\ requests[r].endpoint = "dedupe"
    /\ LET result == DedupeTable(requests[r].file, requests[r].form)
       IN  IF result.status # 200
           THEN Reject(r, result @@ [columns_b |-> <<>>])
           ELSE WriteAndRespond(r, OutputPath("dedupe_", r), DedupeWriteRefused(result.out))
    /\ UNCHANGED <<args, ret, pc>>

\* the response is sent to the caller; the background tasks run after it
DeliverResponse(r) ==
    /\ requests[r].pc = "responding"
    /\ requests' = [requests EXCEPT ![r].pc = "delivered"]
    /\ UNCHANGED <<tmp_files, args, ret, pc>>

\* background task safe_delete(path): remove the file if it exists; an
\* exception of os.remove is swallowed and the file stays
safe_delete(r) ==
    /\ requests[r].pc = "delivered"
    /\ requests[r].background_tasks # <<>>
    /\ LET path == requests[r].background_tasks[1]
       IN  \E raised \in BOOLEAN :
              /\ tmp_files' = IF path \in tmp_files /\ ~raised
                              THEN tmp_files \ {path} ELSE tmp_files
              /\ requests' = [requests EXCEPT ![r] =
                    [@ EXCEPT !.pc = "closed", !.background_tasks = <<>>,
                              !.delete_raised = (path \in tmp_files /\ raised)]]
    /\ UNCHANGED <<args, ret, pc>>

NextServer ==
    \E r \in Requests :
        \/ process_files(r)
        \/ dedupe(r)
        \/ DeliverResponse(r)
        \/ safe_delete(r)

SpecServer == InitServer /\ [][NextServer]_vars


\* the inputs the error handling design rejects
ZeroRows(upload) == upload.ok /\ Len(upload.df.rows) = 0

MissingKeyColumn(q) ==
    /\ q.endpoint = "dedupe" /\ q.form.mode = "column" /\ q.file.ok
    /\ q.form.key_column # NoneText /\ Strip(q.form.key_column) # <<>>
    /\ ~HasColumn(q.file.df, Strip(q.form.key_column))

NoKeyColumn(q) ==
    /\ q.endpoint = "dedupe" /\ q.form.mode = "column"
    /\ (q.form.key_column = NoneText \/ Strip(q.form.key_column) = <<>>)

BadIgnoreColumn(q) ==
    /\ q.endpoint = "dedupe" /\ q.form.mode = "row" /\ q.file.ok
    /\ \E k \in 1..Len(IgnoreList(q.form.ignore_columns)) :
          ~HasColumn(q.file.df, IgnoreList(q.form.ignore_columns)[k])

NothingToCompare(q) ==
    /\ q.endpoint = "dedupe" /\ q.form.mode = "row" /\ q.file.ok
    /\ \A k \in 1..Len(q.file.df.columns) :
          InList(q.file.df.columns[k], IgnoreList(q.form.ignore_columns))

MissingMatchColumn(q) ==
    /\ q.endpoint = "process" /\ q.file.ok /\ q.file_b.ok
    /\ (~HasColumn(q.file.df, q.form.match_column)
        \/ ~HasColumn(q.file_b.df, q.form.match_column))

(* C9: every request whose input is rejected ends with a 400 error and
   creates no output artifact: a /dedupe upload with zero rows gets 400
   'File contains no rows to process.' whatever the other fields; a
   column-mode /dedupe without key_column or with one that is no column, a
   row-mode /dedupe that ignores a column the table has not or leaves no
   column to compare, and a /process whose match_column is absent from
   either table get 400, the missing-column errors with the available column
   names; a /process upload with zero rows gets 400 too. *)
RejectedInputsGet400 ==
    \A r \in Requests :
        LET q == requests[r]
        IN  q.pc # "received" =>
              /\ (q.endpoint = "dedupe" /\ ZeroRows(q.file)) =>
                    /\ q.response.status = 400
                    /\ q.response.error = "File contains no rows to process."
              /\ (MissingKeyColumn(q) \/ BadIgnoreColumn(q)) =>
                    /\ q.response.status = 400
                    /\ ~ZeroRows(q.file) => q.response.columns = q.file.df.columns
              /\ (NoKeyColumn(q) \/ NothingToCompare(q)) => q.response.status = 400
              /\ MissingMatchColumn(q) =>
                    /\ q.response.status = 400
                    /\ q.response.columns = q.file.df.columns
                    /\ q.response.columns_b = q.file_b.df.columns
              /\ (q.endpoint = "process" /\ q.file.ok /\ q.file_b.ok
                  /\ (ZeroRows(q.file) \/ ZeroRows(q.file_b))) => q.response.status = 400
              /\ q.response.status = 400 =>
                    q.output_path = NoPath /\ OutputPath("result_", r) \notin tmp_files
                                           /\ OutputPath("dedupe_", r) \notin tmp_files

\* the request is over: its response was delivered and it has no
\* background task left to run
Finished(q) == q.pc = "closed" \/ (q.pc = "delivered" /\ q.background_tasks = <<>>)

(* C10: in every interleaving of the requests, an artifact a request
   created is deleted once the request is over, by its delivered response or
   by its failure (a failure while the workbook is written included), unless
   the deletion itself failed; no artifact is deleted before its response
   was delivered; and the only files are the artifacts of the requests, each
   under its own name. *)
ArtifactsDeletedAfterRequest ==
    /\ \A r \in Requests :
          LET q == requests[r]
          IN  /\ (Finished(q) /\ q.output_path # NoPath /\ ~q.delete_raised) =>
                    q.output_path \notin tmp_files
              /\ (q.pc \in {"responding", "delivered"} /\ q.output_path # NoPath
                  /\ ~Finished(q)) => q.output_path \in tmp_files
    /\ tmp_files \subseteq {requests[r].output_path : r \in Requests}
    /\ \A r1, r2 \in Requests :
          (r1 # r2 /\ requests[r1].output_path # NoPath) =>
              requests[r1].output_path # requests[r2].output_path

=============================================================================
